---- MODULE Spec2Model ----
(***************************************************************************)
(* Model of the gmash `helptext` Command Line Help Notation parser         *)
(* (gendocs/helptext_parser.py, helptext_ast.py).                          *)
(*                                                                         *)
(* Text is a sequence of one-character strings; lines and columns are      *)
(* 0-based as in the Python source.  A Python value that is not an Ast     *)
(* (a str stored where an Ast is expected, or None) is a node whose tk is  *)
(* "str" or "None", so that the dynamically typed containers of the source *)
(* can hold it.  Source spans (line, col, end_line, end_col of Ast) take   *)
(* no part in Ast.__eq__ and are left out of the nodes.                    *)
(***************************************************************************)
EXTENDS Integers, Sequences, FiniteSets, TLC

(***************************************************************************)
(* Text helpers (Python str operations used by the parser).                *)
(***************************************************************************)
S(str) == [i \in 1..Len(str) |-> SubSeq(str, i, i)]

Letters ==
    { "a","b","c","d","e","f","g","h","i","j","k","l","m",
      "n","o","p","q","r","s","t","u","v","w","x","y","z",
      "A","B","C","D","E","F","G","H","I","J","K","L","M",
      "N","O","P","Q","R","S","T","U","V","W","X","Y","Z" }

Digits == { "0","1","2","3","4","5","6","7","8","9" }

StripSet == { " ", "\t", "\n" }

At(s, i) == s[i + 1]

From(s, pos) == IF pos >= Len(s) THEN << >> ELSE SubSeq(s, pos + 1, Len(s))

StartsWith(s, prefix, pos) ==
    /\ pos + Len(prefix) <= Len(s)
    /\ SubSeq(s, pos + 1, pos + Len(prefix)) = prefix

\* the first index >= pos whose character is not in set (Len(s) when there is none)
ScanWhile(s, pos, set) ==
    IF pos >= Len(s) THEN pos
    ELSE CHOOSE k \in pos..Len(s) :
            /\ \A j \in pos..(k - 1) : At(s, j) \in set
            /\ (k = Len(s) \/ At(s, k) \notin set)

\* the first index >= pos whose character is char (Len(s) when there is none)
ScanUntil(s, pos, char) ==
    IF pos >= Len(s) THEN pos
    ELSE CHOOSE k \in pos..Len(s) :
            /\ \A j \in pos..(k - 1) : At(s, j) # char
            /\ (k = Len(s) \/ At(s, k) = char)

LStrip(s) == From(s, ScanWhile(s, 0, StripSet))

Reverse(s) == [i \in 1..Len(s) |-> s[Len(s) + 1 - i]]

Strip(s) == Reverse(LStrip(Reverse(LStrip(s))))

_is_alnumus(c) == c \in Letters \/ c \in Digits \/ c = "_"

AlnumDash == Letters \cup Digits \cup { "_", "-" }

_is_alnumdash(c) == c \in AlnumDash

_is_alpha(c) == c \in Letters \/ c = "_"

_is_whitespace(c) == c = " " \/ c = "\t"

_skip_whitespace(s, pos) == ScanWhile(s, pos, { " ", "\t" }) - pos

\* a _skip_chars that skips nothing
_skip_chars_none(s, pos, char, count) == 0

_skip_chars(s, pos, char, count) ==
    LET run == ScanWhile(s, pos, { char }) - pos
    IN  IF count = -1 \/ run < count THEN run ELSE count

_line_startswith(s, prefix, pos) == StartsWith(s, prefix, pos + _skip_whitespace(s, pos))

_in_line(pos, s) == pos >= 0 /\ pos < Len(s)

_in_range(line, inp) == line >= 0 /\ line < Len(inp)

Rep(c, n) == [i \in 1..n |-> c]

_is_indented_line(s, indent_level) ==
    IF Strip(s) = << >> THEN FALSE
    ELSE IF indent_level < 1
         THEN ~(StartsWith(s, <<" ">>, 0) \/ StartsWith(s, <<"\t">>, 0))
         ELSE \/ StartsWith(s, Rep(" ", 4 * indent_level), 0)
              \/ StartsWith(s, Rep("\t", indent_level), 0)
              \/ StartsWith(s, Rep(" ", 2 * indent_level), 0)

_is_usage_keyword(s) ==
    \/ StartsWith(s, S("Usage"), 0)
    \/ StartsWith(s, S("usage"), 0)
    \/ StartsWith(s, S("USAGE"), 0)

CommandKeywords ==
    << "Command", "command", "COMMAND", "Commands", "commands", "COMMANDS",
       "Subcommands", "subcommands", "SUBCOMMANDS",
       "Subcommand", "subcommand", "SUBCOMMAND",
       "sub-command", "Sub-Command", "SUB-COMMAND",
       "sub-commands", "Sub-Commands", "SUB-COMMANDS" >>

_is_command_keyword(s) ==
    LET hits == { i \in 1..Len(CommandKeywords) : StartsWith(s, S(CommandKeywords[i]), 0) }
    IN  IF hits = {} THEN 0
        ELSE Len(CommandKeywords[CHOOSE i \in hits : \A j \in hits : i <= j])

(***************************************************************************)
(* Ast nodes and ParseResult.                                              *)
(***************************************************************************)
None == << "None" >>

Ast(tk, value, branches) == [tk |-> tk, value |-> value, branches |-> branches]

\* a Python str held where an Ast is expected
PyStr(msg) == [tk |-> "str", value |-> << msg >>, branches |-> << >>]

NoneAst == [tk |-> "None", value |-> None, branches |-> << >>]

\* the argument of ParseResult(...): a tuple literal or a bare str
PyTuple(first, line, col) == [py |-> "tuple", items |-> << first, line, col >>]

PyBareStr(msg) == [py |-> "str", items |-> S(msg)]

ParseResult(res) ==
    IF res.py = "tuple"
    THEN [ast |-> res.items[1], end_line |-> res.items[2], end_col |-> res.items[3],
          error |-> None]
    ELSE [ast |-> NoneAst, error |-> res.items[1], end_line |-> res.items[2],
          end_col |-> res.items[3]]

\* a failure tuple (message, line, col, inp) handed to ParseResult
Fail(msg, line, col) == ParseResult(PyTuple(PyStr(msg), line, col))

Ok(node, line, col) == ParseResult(PyTuple(node, line, col))

is_error(r) == r.error # None

get_ast(r) == IF is_error(r) THEN NoneAst ELSE r.ast

(***************************************************************************)
(* Primitive token parsers.                                                *)
(***************************************************************************)
LineAt(inp, line) == inp[line + 1]

parse_long_flag(inp, line, col0) ==
    LET s == LineAt(inp, line)
    IN  IF ~_in_line(col0, s)
        THEN Fail("Expected long flag but reached end of input.", line, col0)
        ELSE
        LET col1 == col0 + _skip_whitespace(s, col0)
        IN  IF ~StartsWith(s, S("--"), col1)
            THEN Fail("Expected long flag starting with a '--'.", line, col1)
            ELSE
            LET col2 == col1 + 2
                col == ScanWhile(s, col2, AlnumDash)
                flag_ident == SubSeq(s, col2 + 1, col)
            IN  IF \/ Len(flag_ident) < 2
                   \/ ~_is_alpha(flag_ident[1])
                   \/ ~_is_alnumus(flag_ident[Len(flag_ident)])
                THEN Fail("Invalid long flag identifier.", line, col)
                ELSE IF _in_line(col, s) /\ ~(_is_whitespace(At(s, col)) \/ At(s, col) = ",")
                THEN Fail("Expected whitespace or comma after long flag.", line, col)
                ELSE Ok(Ast("LONG_FLAG", None,
                            << Ast("LONG_FLAG_IDENT", flag_ident, << >>) >>), line, col)

parse_short_flag(inp, line, col0) ==
    LET s == LineAt(inp, line)
    IN  IF ~_in_line(col0, s)
        THEN Fail("Expected short flag but reached end of inp.", line, col0)
        ELSE IF ~StartsWith(s, S("-"), col0) \/ StartsWith(s, S("--"), col0)
        THEN Fail("Expected short flag starting with a '-'.", line, col0)
        ELSE
        LET col1 == col0 + 1
        IN  IF ~_in_line(col1, s) \/ ~_is_alpha(At(s, col1))
            THEN Fail("Invalid short flag identifier.", line, col1)
            ELSE
            LET col == col1 + 1
            IN  IF _in_line(col, s) /\ ~(_is_whitespace(At(s, col)) \/ At(s, col) = ",")
                THEN Fail("Expected whitespace or comma after short flag.", line, col)
                ELSE Ok(Ast("SHORT_FLAG", None,
                            << Ast("SHORT_FLAG_IDENT", << At(s, col1) >>, << >>) >>),
                        line, col)

parse_optional_arg(inp, line, col0) ==
    IF ~_in_range(line, inp)
    THEN Fail("Expected optional argument but reached end of input.", line, col0)
    ELSE
    LET s == LineAt(inp, line)
        col1 == col0 + _skip_whitespace(s, col0)
    IN  IF ~StartsWith(s, S("["), col1)
        THEN Fail("Expected optional argument starting with a '['.", line, col1)
        ELSE
        LET col2 == col1 + 1
            col3 == ScanUntil(s, col2, "]")
            arg_ident == SubSeq(s, col2 + 1, col3)
        IN  IF Len(arg_ident) < 1
            THEN Fail("Expected optional argument identifier.", line, col3)
            ELSE
            LET col4 == col3 + _skip_whitespace(s, col3)
            IN  IF ~_in_line(col4, s) \/ ~StartsWith(s, S("]"), col4)
                THEN Fail("Expected closing ']' for optional argument.", line, col4)
                ELSE Ok(Ast("OPTIONAL_ARG", None,
                            << Ast("SHELL_IDENT", arg_ident, << >>) >>), line, col4 + 1)

parse_required_arg(inp, line, col0) ==
    IF ~_in_range(line, inp)
    THEN Fail("Expected required argument but reached end of input.", line, col0)
    ELSE
    LET s == LineAt(inp, line)
        col1 == col0 + _skip_whitespace(s, col0)
    IN  IF ~StartsWith(s, S("<"), col1)
        THEN Fail("Expected required argument starting with a '<'.", line, col1)
        ELSE
        LET col2 == col1 + 1
            col3 == ScanUntil(s, col2, ">")
            arg_ident == SubSeq(s, col2 + 1, col3)
        IN  IF \/ Len(arg_ident) < 1
               \/ ~_is_alpha(arg_ident[1])
               \/ ~_is_alnumus(arg_ident[Len(arg_ident)])
            THEN Fail("Expected required argument identifier.", line, col3)
            ELSE
            LET col4 == col3 + _skip_whitespace(s, col3)
            IN  IF ~_in_line(col4, s) \/ ~StartsWith(s, S(">"), col4)
                THEN Fail("Expected closing '>' for required argument.", line, col4)
                ELSE Ok(Ast("REQUIRED_ARG", None,
                            << Ast("SHELL_IDENT", arg_ident, << >>) >>), line, col4 + 1)

(***************************************************************************)
(* Argument parser.                                                        *)
(***************************************************************************)
\* a separator skip that takes whitespace only and leaves a ',' in place
SkipCommaNot(s, pos0, alwaysSkipWs) == pos0 + _skip_whitespace(s, pos0)

\* skip whitespace, then one optional ',' (and, when skipWsAfter, whitespace again)
SkipComma(s, pos0, alwaysSkipWs) ==
    LET p1 == pos0 + _skip_whitespace(s, pos0)
        comma == p1 < Len(s) /\ At(s, p1) = ","
        p2 == IF comma THEN p1 + 1 ELSE p1
    IN  IF comma \/ alwaysSkipWs THEN p2 + _skip_whitespace(s, p2) ELSE p2

\* the `while _line_startswith(inp[line],"--",pos)` loop of parse_argument
RECURSIVE LongFlagLoop(_, _, _, _, _)
LongFlagLoop(inp, line, pos, branches, has_long_flag) ==
    IF ~_line_startswith(LineAt(inp, line), S("--"), pos)
    THEN [ret |-> FALSE, branches |-> branches, pos |-> pos, has_long_flag |-> has_long_flag]
    ELSE
    LET s == LineAt(inp, line)
        r == parse_long_flag(inp, line, pos + _skip_whitespace(s, pos))
    IN  IF is_error(r)
        THEN [ret |-> TRUE, result |-> r]
        ELSE LongFlagLoop(inp, line, SkipComma(s, r.end_col, FALSE),
                          Append(branches, get_ast(r)), TRUE)

\* the `while line < len(inp) and (8 spaces or 2 tabs)` loop of parse_argument
RECURSIVE HangingLoop(_, _, _)
HangingLoop(inp, line, branches) ==
    IF line < Len(inp)
       /\ (\/ StartsWith(LineAt(inp, line), Rep(" ", 8), 0)
           \/ StartsWith(LineAt(inp, line), Rep("\t", 2), 0))
    THEN HangingLoop(inp, line + 1,
                     Append(branches, Ast("TEXT_LINE", Strip(LineAt(inp, line)), << >>)))
    ELSE [branches |-> branches, line |-> line]

\* the description part of parse_argument (source lines 380-418)
ArgumentDescription(inp, line, pos, branches) ==
    LET s == LineAt(inp, line)
    IN  IF StartsWith(s, S(":"), pos)
        THEN LET p == (pos + 1) + _skip_whitespace(s, pos + 1)
                 text == Strip(From(s, p))
             IN  IF text = << >>
                 THEN Fail("Expected argument description text after ':'.", line, p)
                 ELSE Ok(Ast("ARGUMENT", None,
                             Append(branches, Ast("TEXT_LINE", text, << >>))), line, 0)
        ELSE
        LET text == Strip(From(s, pos))
        IN  IF text # << >>
            THEN Ok(Ast("ARGUMENT", None,
                        Append(branches, Ast("TEXT_LINE", text, << >>))), line + 1, pos)
            ELSE IF line + 1 < Len(inp) /\ _is_indented_line(LineAt(inp, line + 1), 2)
            THEN LET first == Strip(LineAt(inp, line + 1))
                     b1 == IF first # << >>
                           THEN Append(branches, Ast("TEXT_LINE", first, << >>))
                           ELSE branches
                     l1 == IF first # << >> THEN line + 2 ELSE line + 1
                     h == HangingLoop(inp, l1, b1)
                 IN  Ok(Ast("ARGUMENT", None, h.branches), h.line, pos)
            ELSE Ok(Ast("ARGUMENT", None, branches), line + 1, pos)

\* the placeholder part of parse_argument (source lines 357-378)
ArgumentPlaceholder(inp, line, pos, branches) ==
    LET s == LineAt(inp, line)
    IN  IF StartsWith(s, S("["), pos) \/ StartsWith(s, S("<"), pos)
        THEN LET r == IF StartsWith(s, S("["), pos)
                      THEN parse_optional_arg(inp, line, pos)
                      ELSE parse_required_arg(inp, line, pos)
             IN  IF is_error(r) THEN r
                 ELSE IF r.end_line >= Len(inp)
                 THEN Fail("Expected argument description but reached end of input.",
                           r.end_line, r.end_col)
                 ELSE ArgumentDescription(inp, r.end_line,
                          r.end_col + _skip_whitespace(LineAt(inp, r.end_line), r.end_col),
                          Append(branches, get_ast(r)))
        ELSE ArgumentDescription(inp, line, pos, branches)

\* the long flags and everything after them (source lines 338-418)
ArgumentLongFlags(inp, line, pos, branches, has_short_flag) ==
    LET lf == LongFlagLoop(inp, line, pos, branches, FALSE)
    IN  IF lf.ret THEN lf.result
        ELSE IF ~lf.has_long_flag /\ ~has_short_flag
        THEN ParseResult(PyBareStr("Expected at least one long flag at line"))
        ELSE ArgumentPlaceholder(inp, line, lf.pos, lf.branches)

parse_argument(inp, line, pos) ==
    IF ~_in_range(line, inp)
    THEN Fail("Expected argument but reached end of input.", line, pos)
    ELSE
    LET s == LineAt(inp, line)
    IN  IF _line_startswith(s, S("-"), 0) /\ ~_line_startswith(s, S("--"), 0)
        THEN LET r == parse_short_flag(inp, line, pos + _skip_whitespace(s, pos))
             IN  IF is_error(r) THEN r
                 ELSE ArgumentLongFlags(inp, r.end_line,
                          SkipComma(LineAt(inp, r.end_line), r.end_col, TRUE),
                          << get_ast(r) >>, TRUE)
        ELSE ArgumentLongFlags(inp, line, pos, << >>, FALSE)

(***************************************************************************)
(* Paragraph, usage, command-section and section parsers.                  *)
(***************************************************************************)
IsBlank(s) == Strip(s) = << >>

\* the `while` loop of parse_paragraph that collects the text lines
RECURSIVE ParagraphLoop(_, _, _, _)
ParagraphLoop(inp, line, indent_level, branches) ==
    IF /\ line < Len(inp)
       /\ (_is_indented_line(LineAt(inp, line), indent_level) \/ IsBlank(LineAt(inp, line)))
       /\ ~(/\ indent_level = 0
            /\ ~_is_indented_line(LineAt(inp, line), 1)
            /\ ~IsBlank(LineAt(inp, line))
            /\ line + 1 < Len(inp)
            /\ _is_indented_line(LineAt(inp, line + 1), 1))
    THEN ParagraphLoop(inp, line + 1, indent_level,
                       Append(branches, Ast("TEXT_LINE", Strip(LineAt(inp, line)), << >>)))
    ELSE [branches |-> branches, line |-> line]

\* the empty lines at the end are kept
PopEmptyTailNone(branches) == branches

\* `while len(para.branches) > 0 and para.branches[-1].value == "": pop()`
RECURSIVE PopEmptyTail(_)
PopEmptyTail(branches) ==
    IF Len(branches) > 0 /\ branches[Len(branches)].value = << >>
    THEN PopEmptyTail(SubSeq(branches, 1, Len(branches) - 1))
    ELSE branches

parse_paragraph(inp, line0, pos, indent_level) ==
    LET line == IF IsBlank(LineAt(inp, line0)) THEN line0 + 1 ELSE line0
    IN  IF line >= Len(inp)
        THEN Fail("Expected paragraph but reached end of input.", line, pos)
        ELSE IF ~_is_indented_line(LineAt(inp, line), indent_level)
        THEN Fail("Expected indented paragraph.", line, pos)
        ELSE LET lp == ParagraphLoop(inp, line, indent_level, << >>)
             IN  Ok(Ast("PARAGRAPH", None, PopEmptyTail(lp.branches)), lp.line, 0)

\* the continuation loop of parse_usage_section (source lines 520-523)
\* a continuation loop that takes no further line
UsageLoopNone(inp, line, usage_text) == [text |-> usage_text, line |-> line]

RECURSIVE UsageLoop(_, _, _)
UsageLoop(inp, line, usage_text) ==
    IF line < Len(inp)
       /\ (_is_indented_line(LineAt(inp, line), 1) \/ IsBlank(LineAt(inp, line)))
    THEN UsageLoop(inp, line + 1, usage_text \o << "\n" >> \o Strip(LineAt(inp, line)))
    ELSE [text |-> usage_text, line |-> line]

\* `while usage_text[-1] in (' ', '\t', '\n'): usage_text = usage_text[:-1]`
RStrip(s) == Reverse(LStrip(Reverse(s)))

parse_usage_section(inp, line, pos0) ==
    IF line >= Len(inp)
    THEN ParseResult(PyBareStr("Expected usage section but reached end of inp"))
    ELSE
    LET s == LineAt(inp, line)
    IN  IF ~_is_usage_keyword(s)
        THEN Fail("Expected usage section starting with 'Usage:'.", line, pos0)
        ELSE
        LET p1 == pos0 + Len(S("Usage"))
            p2 == p1 + _skip_whitespace(s, p1)
            p3 == p2 + _skip_chars(s, p2, ":", 1)
            pos == p3 + _skip_whitespace(s, p3)
            usage_text == Strip(From(s, pos))
        IN  IF usage_text = << >>
            THEN IF line + 1 < Len(inp) /\ _is_indented_line(LineAt(inp, line + 1), 1)
                 THEN LET u == UsageLoop(inp, line + 2, Strip(LineAt(inp, line + 1)))
                      IN  Ok(Ast("USAGE", RStrip(u.text), << >>), u.line, pos)
                 ELSE Fail("Expected indented usage text after usage keyword.",
                           line + 1, pos)
            ELSE Ok(Ast("USAGE", RStrip(usage_text), << >>), line + 1, 0)

\* parse_command_section reaches `Ast(Tk.COMMAND_SECTION)` (source line 552); the
\* enum Tk (helptext_ast.py) has no member COMMAND_SECTION, so evaluating it
\* raises AttributeError
command_section_raises(inp, line) ==
    /\ line < Len(inp)
    /\ _is_command_keyword(LineAt(inp, line)) # 0
    /\ line + 1 < Len(inp)
    /\ _is_indented_line(LineAt(inp, line + 1), 1)

\* the paths of parse_command_section that return before source line 552
parse_command_section(inp, line, pos0) ==
    IF line >= Len(inp)
    THEN ParseResult(PyBareStr("Expected usage section but reached end of inp"))
    ELSE
    LET s == LineAt(inp, line)
        is_command_section == _is_command_keyword(s)
    IN  IF is_command_section = 0
        THEN Fail("Expected command section starting with command keyword.", line, pos0)
        ELSE
        LET p1 == pos0 + is_command_section
            p2 == p1 + _skip_whitespace(s, p1)
            p3 == p2 + _skip_chars(s, p2, ":", 1)
            pos == p3 + _skip_whitespace(s, p3)
        IN  Fail("Expected indented command list after command keyword.", line, pos)

\* the title line taken as it is, without strip()
section_title_raw(inp, line) == LineAt(inp, line)

\* `section_title = inp[line].strip()`
section_title_of(inp, line) == Strip(LineAt(inp, line))

\* parse_section up to the choice of the body (source lines 447-471); the argument
\* list body is parsed by the steps ArgListStep / ArgListExit below
parse_section_head(inp, line, pos) ==
    IF line > Len(inp)
    THEN [kind |-> "result",
          r |-> Fail("Expected section but reached end of input.", line, pos)]
    ELSE IF _is_indented_line(LineAt(inp, line), 1)
    THEN [kind |-> "result", r |-> Fail("Expected section title.", line, pos)]
    ELSE
    LET section_title == section_title_of(inp, line)
        body == line + 1
    IN  IF ~(body < Len(inp)) \/ ~_is_indented_line(LineAt(inp, body), 1)
        THEN [kind |-> "result",
              r |-> Fail("Expected indented text after section title.", body, pos)]
        ELSE
        LET section_start == _skip_whitespace(LineAt(inp, body), 0)
        IN  IF StartsWith(LineAt(inp, body), S("-"), section_start)
            THEN [kind |-> "arglist", title |-> section_title, line |-> body,
                  col |-> section_start]
            ELSE LET para_result == parse_paragraph(inp, body, 0, 1)
                 IN  [kind |-> "result",
                      r |-> IF is_error(para_result)
                            THEN Fail("Failed to parse paragraph.", body, pos)
                            ELSE Ok(Ast("SECTION", section_title, << get_ast(para_result) >>),
                                    para_result.end_line, para_result.end_col)]

\* the end of parse_argument_list (source lines 437-440)
parse_argument_list_end(node, line, pos) ==
    IF Len(node) = 0
    THEN Fail("Attempting to parse non-existing argument list.", line, pos)
    ELSE Ok(Ast("ARGUMENT_LIST", None, node), line, pos)

\* parse_section once its argument list is parsed (source lines 459-463)
parse_section_tail(section_title, body, pos, arg_list_result) ==
    IF is_error(arg_list_result)
    THEN Fail("Failed to parse argument list.", body, pos)
    ELSE Ok(Ast("SECTION", section_title, << get_ast(arg_list_result) >>),
            arg_list_result.end_line, arg_list_result.end_col)

\* `while line < len(inp) and inp[line].strip() == "": line += 1`
RECURSIVE SkipBlankLines(_, _)
SkipBlankLines(inp, line) ==
    IF line < Len(inp) /\ IsBlank(LineAt(inp, line))
    THEN SkipBlankLines(inp, line + 1)
    ELSE line

\* a lookahead that never sees a section
is_section_never(inp, line) == FALSE

\* the one-line lookahead of parse_help_text (source lines 655-659)
is_section(inp, line) ==
    LET section_begin == IF line + 1 < Len(inp) THEN LineAt(inp, line + 1) ELSE << >>
    IN  _is_indented_line(section_begin, 1) /\ Strip(section_begin) # << >>

(***************************************************************************)
(* Markdown renderer (helptext_md.py).  Markdown text is a sequence of     *)
(* characters like every other text.                                       *)
(***************************************************************************)
\* the character U+0060 (grave accent), which cannot be written in a string here
BT == "backtick"

\* GeneratorResult(str) and GeneratorResult((msg, line, col)); line and col of an
\* error are the span of a node, which the nodes of this model do not carry
GeneratorResult(res) ==
    IF res.py = "str"
    THEN [md |-> res.items, error |-> None]
    ELSE [md |-> << >>, error |-> << res.items[1] >>]

GenMd(text) == GeneratorResult([py |-> "str", items |-> text])

GenError(msg) == GeneratorResult(PyTuple(msg, 0, 0))

\* evaluating the call raised an exception instead of returning
Raised(exception) == [raised |-> exception]

IsRaised(r) == "raised" \in DOMAIN r

gen_is_error(r) == r.error # None

get_md(r) == r.md

\* `{x}` in an f-string
PyFormat(value) == IF value = None THEN S("None") ELSE value

\* `node.branches[0].value` cannot be evaluated
NoIdent(node) == node.branches = << >> \/ node.branches[1].tk = "str"

IsPositional(node) == node.tk \in { "OPTIONAL_ARG", "REQUIRED_ARG" }

\* the state of generate_argument after its test for a short flag (source lines
\* 58-61); raised: an attribute or index access raised
ShortFlagPart(br) ==
    IF br[1].tk = "str" \/ (br[1].tk = "SHORT_FLAG" /\ NoIdent(br[1]))
    THEN [raised |-> TRUE, next_branch |-> 0, outp |-> << >>, has_long_flag |-> FALSE,
          has_positional |-> FALSE]
    ELSE IF br[1].tk = "SHORT_FLAG"
    THEN [raised |-> FALSE, next_branch |-> 1,
          outp |-> << BT >> \o S("-") \o PyFormat(br[1].branches[1].value) \o << BT >> \o S(" "),
          has_long_flag |-> FALSE, has_positional |-> FALSE]
    ELSE [raised |-> FALSE, next_branch |-> 0, outp |-> << >>, has_long_flag |-> FALSE,
          has_positional |-> FALSE]

\* outp with the blank generate_argument puts before the next token
Spaced(outp) == IF Len(outp) > 0 THEN outp \o S(" ") ELSE outp

\* the test for one long flag (source lines 64-71)
LongFlagPart(br, st) ==
    IF st.raised \/ ~(st.next_branch < Len(br)) THEN st
    ELSE IF \/ br[st.next_branch + 1].tk = "str"
            \/ br[st.next_branch + 1].tk = "LONG_FLAG" /\ NoIdent(br[st.next_branch + 1])
    THEN [st EXCEPT !.raised = TRUE]
    ELSE IF br[st.next_branch + 1].tk = "LONG_FLAG"
    THEN [st EXCEPT !.has_long_flag = TRUE,
                    !.next_branch = @ + 1,
                    !.outp = Spaced(@) \o << BT >> \o S("--")
                             \o PyFormat(br[st.next_branch + 1].branches[1].value)]
    ELSE st

\* the `while` loop of generate_argument over OPTIONAL_ARG / REQUIRED_ARG branches
RECURSIVE PositionalLoop(_, _)
PositionalLoop(br, st) ==
    IF st.raised \/ ~(st.next_branch < Len(br)) THEN st
    ELSE IF br[st.next_branch + 1].tk = "str" THEN [st EXCEPT !.raised = TRUE]
    ELSE IF ~IsPositional(br[st.next_branch + 1]) THEN st
    ELSE IF NoIdent(br[st.next_branch + 1]) THEN [st EXCEPT !.raised = TRUE]
    ELSE PositionalLoop(br,
            [st EXCEPT !.has_positional = TRUE,
                       !.next_branch = @ + 1,
                       !.outp = Spaced(@)
                                \o (IF br[st.next_branch + 1].tk = "OPTIONAL_ARG"
                                    THEN S(" [") ELSE S(" <"))
                                \o PyFormat(br[st.next_branch + 1].branches[1].value)
                                \o (IF br[st.next_branch + 1].tk = "OPTIONAL_ARG"
                                    THEN S("]") ELSE S(">"))
                                \o << BT >> \o S(" ")])

\* the backtick that closes a long flag without placeholder (source lines 86-88)
CloseLongFlag(st) ==
    IF ~st.raised /\ ~st.has_positional /\ st.has_long_flag
    THEN [st EXCEPT !.outp = @ \o << BT >> \o S(" ")]
    ELSE st

\* the flags and placeholders of generate_argument (source lines 56-88)
ArgumentFlags(arg) ==
    CloseLongFlag(PositionalLoop(arg.branches,
                                 LongFlagPart(arg.branches, ShortFlagPart(arg.branches))))

\* the `for text in arg.branches` loop of generate_argument
RECURSIVE ArgumentBriefFrom(_, _)
ArgumentBriefFrom(branches, i) ==
    IF i > Len(branches) THEN << >>
    ELSE (IF branches[i].tk = "TEXT_LINE"
          THEN S("\\\n&nbsp;&nbsp;&nbsp;&nbsp;") \o Strip(branches[i].value)
          ELSE << >>) \o ArgumentBriefFrom(branches, i + 1)

\* no text at all
ArgumentBriefNone(arg) == << >>

ArgumentBrief(arg) == ArgumentBriefFrom(arg.branches, 1)

\* the text loop reaches a str, or a TEXT_LINE whose value is None
BriefRaises(arg) ==
    \E i \in 1..Len(arg.branches) :
        \/ arg.branches[i].tk = "str"
        \/ arg.branches[i].tk = "TEXT_LINE" /\ arg.branches[i].value = None

\* generate_argument from the test of the branch after the flags on (source lines
\* 90-102)
ArgumentText(arg, f, arg_brief) ==
    IF f.raised THEN Raised("AttributeError")
    ELSE IF /\ f.next_branch < Len(arg.branches)
            /\ arg.branches[f.next_branch + 1].tk # "TEXT_LINE"
    THEN GenError("Unexpected token in argument list:"
                  \o arg.branches[f.next_branch + 1].tk)
    ELSE IF BriefRaises(arg) THEN Raised("AttributeError")
    ELSE GenMd(IF Strip(arg_brief) # << >> THEN f.outp \o arg_brief ELSE f.outp)

generate_argument(arg) ==
    IF arg.tk = "str" THEN Raised("AttributeError")
    ELSE IF arg.tk # "ARGUMENT" THEN GenError("Expected argument node")
    ELSE IF Len(arg.branches) = 0 THEN GenError("Invalid ARGUMENT node format.")
    ELSE ArgumentText(arg, ArgumentFlags(arg), ArgumentBrief(arg))

\* str.split("\n")
RECURSIVE SplitLines(_)
SplitLines(s) ==
    LET nl == ScanUntil(s, 0, "\n")
    IN  IF nl >= Len(s) THEN << s >>
        ELSE << SubSeq(s, 1, nl) >> \o SplitLines(From(s, nl + 1))

\* "\n".join(outp)
RECURSIVE JoinLines(_)
JoinLines(outp) ==
    IF outp = << >> THEN << >>
    ELSE IF Len(outp) = 1 THEN outp[1]
    ELSE outp[1] \o S("\n") \o JoinLines(Tail(outp))

\* the title loop of generate_md: the first line of the usage text up to the first
\* '-', '[' or '<', every whitespace character turned into a blank
RECURSIVE TitleOf(_)
TitleOf(first_line) ==
    IF first_line = << >> THEN << >>
    ELSE IF first_line[1] \in StripSet THEN S(" ") \o TitleOf(Tail(first_line))
    ELSE IF first_line[1] \in { "-", "[", "<" } THEN << >>
    ELSE << first_line[1] >> \o TitleOf(Tail(first_line))

\* `for ln in br.value.split("\n")` of generate_md
RECURSIVE UsageLinesOf(_)
UsageLinesOf(lns) ==
    IF lns = << >> THEN << >>
    ELSE (IF Strip(lns[1]) # << >>
          THEN << << BT >> \o Strip(lns[1]) \o << BT >> \o S("\n") >>
          ELSE << >>) \o UsageLinesOf(Tail(lns))

\* what generate_md appends for one Tk.USAGE branch (source lines 116-134)
UsageOutput(br) ==
    (IF Strip(br.value) # << >>
     THEN << S("# ") \o TitleOf(SplitLines(br.value)[1]) \o S("\n") >>
     ELSE << >>)
    \o << S("### Usage") >>
    \o UsageLinesOf(SplitLines(br.value))

\* the stripped values of the Tk.TEXT_LINE branches of a paragraph, each after prefix
TextLines(branches, prefix) == [i \in 1..Len(branches) |-> prefix \o Strip(branches[i].value)]

\* a `ln.value.strip()` over these branches cannot be evaluated
TextRaises(branches) ==
    \E i \in 1..Len(branches) : branches[i].tk = "str" \/ branches[i].value = None

\* first loop of generate_md: the usage sections
RECURSIVE UsageLoopMd(_, _)
UsageLoopMd(branches, i) ==
    IF i > Len(branches) THEN [raised |-> FALSE, outp |-> << >>]
    ELSE IF branches[i].tk = "str" THEN [raised |-> TRUE, outp |-> << >>]
    ELSE IF branches[i].tk # "USAGE" THEN UsageLoopMd(branches, i + 1)
    ELSE IF branches[i].value = None THEN [raised |-> TRUE, outp |-> << >>]
    ELSE LET rest == UsageLoopMd(branches, i + 1)
         IN  [raised |-> rest.raised, outp |-> UsageOutput(branches[i]) \o rest.outp]

\* second loop of generate_md: Tk.BRIEF branches
RECURSIVE BriefLoopMd(_, _)
BriefLoopMd(branches, i) ==
    IF i > Len(branches) THEN [raised |-> FALSE, outp |-> << >>]
    ELSE IF branches[i].tk # "BRIEF" THEN BriefLoopMd(branches, i + 1)
    ELSE IF \/ branches[i].branches = << >>
            \/ branches[i].branches[1].tk = "str"
            \/ TextRaises(branches[i].branches[1].branches)
    THEN [raised |-> TRUE, outp |-> << >>]
    ELSE LET rest == BriefLoopMd(branches, i + 1)
         IN  [raised |-> rest.raised,
              outp |-> TextLines(branches[i].branches[1].branches, << >>) \o rest.outp]

\* third loop of generate_md: root-level paragraphs before any section
RECURSIVE ParagraphLoopMd(_, _, _)
ParagraphLoopMd(branches, i, no_preceding_section) ==
    IF i > Len(branches) THEN [raised |-> FALSE, outp |-> << >>]
    ELSE IF branches[i].tk = "PARAGRAPH" /\ no_preceding_section
    THEN IF TextRaises(branches[i].branches)
         THEN [raised |-> TRUE, outp |-> << >>]
         ELSE LET rest == ParagraphLoopMd(branches, i + 1, no_preceding_section)
              IN  [raised |-> rest.raised,
                   outp |-> << S("### Brief") >> \o TextLines(branches[i].branches, << >>)
                            \o << << >> >> \o rest.outp]
    ELSE ParagraphLoopMd(branches, i + 1,
                         no_preceding_section /\ branches[i].tk # "SECTION")

\* `### title` of a section or of an argument list
Heading(value) ==
    IF value # None /\ Strip(value) # << >> THEN << S("### ") \o Strip(value) >> ELSE << >>

\* the paragraphs of a section whose first branch is a paragraph
RECURSIVE SectionParagraphs(_, _)
SectionParagraphs(branches, i) ==
    IF i > Len(branches) THEN [raised |-> FALSE, outp |-> << >>]
    ELSE IF branches[i].tk = "str" THEN [raised |-> TRUE, outp |-> << >>]
    ELSE IF branches[i].tk # "PARAGRAPH" THEN SectionParagraphs(branches, i + 1)
    ELSE IF TextRaises(branches[i].branches) THEN [raised |-> TRUE, outp |-> << >>]
    ELSE LET rest == SectionParagraphs(branches, i + 1)
         IN  [raised |-> rest.raised,
              outp |-> TextLines(branches[i].branches, S("    ")) \o rest.outp]

\* the outcome of a loop of generate_md: what it appended to outp, the error result
\* it returned (or None), whether it raised
Appended(lines) == [raised |-> FALSE, error |-> None, outp |-> lines]

\* lines, then what the rest of the loop does
Before(lines, rest) == [rest EXCEPT !.outp = lines \o @]

RECURSIVE ArgumentsMd(_, _)
\* one iteration of `for arg in arg_list.branches` (source lines 174-178)
ArgumentStep(branches, i, arg_res) ==
    IF IsRaised(arg_res) THEN [raised |-> TRUE, error |-> None, outp |-> << >>]
    ELSE IF gen_is_error(arg_res)
    THEN [raised |-> FALSE, error |-> arg_res.error, outp |-> << >>]
    ELSE Before(<< get_md(arg_res), << >> >>, ArgumentsMd(branches, i + 1))

\* `for arg in arg_list.branches`: stops at the first argument that is an error
ArgumentsMd(branches, i) ==
    IF i > Len(branches) THEN Appended(<< >>)
    ELSE ArgumentStep(branches, i, generate_argument(branches[i]))

\* what generate_md does for one Tk.SECTION branch (source lines 156-178)
SectionOutput(section) ==
    IF section.branches = << >> \/ section.branches[1].tk = "str"
    THEN [raised |-> TRUE, error |-> None, outp |-> << >>]
    ELSE IF section.branches[1].tk = "PARAGRAPH"
    THEN Before(Heading(section.value),
                [raised |-> SectionParagraphs(section.branches, 1).raised, error |-> None,
                 outp |-> SectionParagraphs(section.branches, 1).outp \o << << >> >>])
    ELSE IF section.branches[1].tk = "ARGUMENT_LIST"
    THEN Before(Heading(section.value) \o Heading(section.branches[1].value),
                ArgumentsMd(section.branches[1].branches, 1))
    ELSE Appended(Heading(section.value))

RECURSIVE SectionLoopMd(_, _)
\* one iteration of the fourth loop, s being the outcome for the section
SectionStep(branches, i, s) ==
    IF s.raised \/ s.error # None THEN s
    ELSE Before(s.outp, SectionLoopMd(branches, i + 1))

\* fourth loop of generate_md: the sections, up to the first error
SectionLoopMd(branches, i) ==
    IF i > Len(branches) THEN Appended(<< >>)
    ELSE IF branches[i].tk # "SECTION" THEN SectionLoopMd(branches, i + 1)
    ELSE SectionStep(branches, i, SectionOutput(branches[i]))

\* every node is taken for the root
ExpectedRootAny(ast) == TRUE

\* `ast.tk != Tk.SYNTAX` is false
ExpectedRoot(ast) == ast.tk = "SYNTAX"

\* the result of generate_md from what its four loops did
Assemble(u, b, p, s) ==
    IF u.raised \/ b.raised \/ p.raised \/ s.raised THEN Raised("AttributeError")
    ELSE IF s.error # None THEN [md |-> << >>, error |-> s.error]
    ELSE GenMd(JoinLines(u.outp \o b.outp \o p.outp \o s.outp))

generate_md(ast) ==
    IF ast.tk \in { "str", "None" } THEN Raised("AttributeError")
    ELSE IF ~ExpectedRoot(ast) THEN GenError("Expected root syntax node")
    ELSE Assemble(UsageLoopMd(ast.branches, 1), BriefLoopMd(ast.branches, 1),
                  ParagraphLoopMd(ast.branches, 1, TRUE), SectionLoopMd(ast.branches, 1))

\* HelpText.parse: the node handed to the caller for the result of parse
HelpText_parse(parse_res) ==
    IF is_error(parse_res) THEN Ast("POSION", parse_res.error, << >>) ELSE get_ast(parse_res)

(***************************************************************************)
(* Bounds and inputs.                                                      *)
(***************************************************************************)
MaxLines == 3

DocLines ==
    { S(""), S("T "), S("  x"), S("    -f x"), S("  -f"), S("  --a"),
      S("  -f : x"), S("  -f :"), S("  -f [x"), S("Usage: a"), S("Usage:"),
      S("Commands:") }

RECURSIVE SeqsUpTo(_, _)
SeqsUpTo(set, n) ==
    IF n = 0 THEN { << >> }
    ELSE LET shorter == SeqsUpTo(set, n - 1)
         IN  shorter \cup { Append(d, l) : d \in { e \in shorter : Len(e) = n - 1 }, l \in set }

Docs == SeqsUpTo(DocLines, MaxLines)

\* --- inputs built from parts; `given` keeps the parts -------------------
NoPh == [kind |-> "none", ident |-> << >>]

ArgSpec(short, longs, ph, colon, desc) ==
    [short |-> short, longs |-> longs, ph |-> ph, colon |-> colon, desc |-> desc]

RECURSIVE Concat(_)
Concat(seqs) == IF seqs = << >> THEN << >> ELSE Head(seqs) \o Concat(Tail(seqs))

\* the text of an argument line: flags, each followed by sep, placeholder, description
ArgLine(indent, a, sep) ==
    indent
    \o (IF a.short = << >> THEN << >> ELSE S("-") \o a.short \o sep)
    \o Concat([i \in 1..Len(a.longs) |-> S("--") \o a.longs[i] \o sep])
    \o (CASE a.ph.kind = "opt" -> S("[") \o a.ph.ident \o S("] ")
          [] a.ph.kind = "req" -> S("<") \o a.ph.ident \o S("> ")
          [] OTHER -> << >>)
    \o (IF a.colon THEN S(": ") ELSE << >>)
    \o a.desc

\* the Argument node the notation assigns to the parts
ArgNode(a) ==
    Ast("ARGUMENT", None,
        (IF a.short = << >> THEN << >>
         ELSE << Ast("SHORT_FLAG", None, << Ast("SHORT_FLAG_IDENT", a.short, << >>) >>) >>)
        \o [i \in 1..Len(a.longs) |->
              Ast("LONG_FLAG", None, << Ast("LONG_FLAG_IDENT", a.longs[i], << >>) >>)]
        \o (CASE a.ph.kind = "opt" ->
                   << Ast("OPTIONAL_ARG", None, << Ast("SHELL_IDENT", a.ph.ident, << >>) >>) >>
              [] a.ph.kind = "req" ->
                   << Ast("REQUIRED_ARG", None, << Ast("SHELL_IDENT", a.ph.ident, << >>) >>) >>
              [] OTHER -> << >>)
        \o (IF a.desc = << >> THEN << >> ELSE << Ast("TEXT_LINE", a.desc, << >>) >>))

Opt(i) == [kind |-> "opt", ident |-> S(i)]

Req(i) == [kind |-> "req", ident |-> S(i)]

Indents == { S("  "), S("    "), S("\t") }

\* argument lines that carry an inline description
DescribedArgs ==
    { ArgSpec(S("f"), << >>, NoPh, FALSE, S("x y")),
      ArgSpec(<< >>, << S("ab") >>, NoPh, FALSE, S("x")),
      ArgSpec(S("f"), << S("ab") >>, Opt("o"), FALSE, S("x")),
      ArgSpec(S("g"), << S("ab"), S("c-d") >>, Req("i"), FALSE, S("x")),
      ArgSpec(S("f"), << >>, NoPh, TRUE, S("x")),
      ArgSpec(<< >>, << S("ab") >>, Opt("o"), TRUE, S("x y")) }

\* argument lines without any description
BareArgs ==
    { ArgSpec(S("f"), << >>, NoPh, FALSE, << >>),
      ArgSpec(<< >>, << S("ab") >>, NoPh, FALSE, << >>),
      ArgSpec(S("f"), << S("ab") >>, Opt("o"), FALSE, << >>),
      ArgSpec(<< >>, << S("ab"), S("c-d") >>, Req("i"), FALSE, << >>) }

MaxArgLines == 2

Titles == { S("Options"), S("Opts: ") }

\* a title line and indented, described argument lines, blank-separated or not
SectionDocs ==
    { [title |-> t, indent |-> ind, blanks |-> b, args |-> as] :
        t \in Titles, ind \in Indents, b \in BOOLEAN,
        as \in (SeqsUpTo(DescribedArgs, MaxArgLines) \ { << >> }) }

SectionDocLines(g) ==
    << g.title >>
    \o Concat([i \in 1..Len(g.args) |->
                 (IF g.blanks /\ i > 1 THEN << << >> >> ELSE << >>)
                 \o << ArgLine(g.indent, g.args[i], S(" ")) >>])

\* one usage line followed by a blank line
UsageDocs ==
    { [keyword |-> k, ws1 |-> w1, colon |-> c, ws2 |-> w2, text |-> x, trail |-> tr] :
        k \in { S("Usage"), S("usage"), S("USAGE") },
        w1 \in { << >>, S(" ") }, c \in { << >>, S(":") },
        w2 \in { S(" "), S(" \t") },
        x \in { S("a"), S("p [o] <i>"), S("a:b -x") }, tr \in { << >>, S(" ") } }

UsageDocLines(g) ==
    << g.keyword \o g.ws1 \o g.colon \o g.ws2 \o g.text \o g.trail, << >> >>

\* a description-less argument line, alone or followed by a line that is not
\* indented deeper than it
AfterBare == { "nothing", "blank", "flag", "text" }

BareArgDocs ==
    { [indent |-> ind, arg |-> a, after |-> f] :
        ind \in Indents \cup { << >> }, a \in BareArgs, f \in AfterBare }

BareArgDocLines(g) ==
    << ArgLine(g.indent, g.arg, S(" ")) >>
    \o (CASE g.after = "blank" -> << << >> >>
          [] g.after = "flag" -> << g.indent \o S("-g x") >>
          [] g.after = "text" -> << S("T") >>
          [] OTHER -> << >>)

\* argument lines whose flags are followed by a comma separator
CommaSeps == { S(","), S(", "), S(" ,"), S(" , ") }

CommaArgs ==
    { ArgSpec(S("f"), << S("long"), S("second") >>, Opt("opt"), FALSE, S("text")),
      ArgSpec(S("f"), << S("ab") >>, NoPh, FALSE, S("x")),
      ArgSpec(<< >>, << S("ab"), S("c-d") >>, Req("i"), FALSE, << >>),
      ArgSpec(S("f"), << >>, NoPh, FALSE, S("x")),
      ArgSpec(S("f"), << S("ab") >>, NoPh, FALSE, << >>) }

CommaArgDocs ==
    { [indent |-> ind, arg |-> a, sep |-> s] :
        ind \in { << >>, S("  ") }, a \in CommaArgs, s \in CommaSeps }

\* lines handed to parse_long_flag
LongFlagLines ==
    { S("--a"), S("--a x"), S("--a,"), S("--_"), S("--"), S(" --Z"),
      S("--ab"), S("--a-b x"), S("--1b"), S("--ab-"), S("-a"), S("") }

\* branches an Argument handed to generate_argument is built from
ShortFlagNode(x) == Ast("SHORT_FLAG", None, << Ast("SHORT_FLAG_IDENT", S(x), << >>) >>)

LongFlagNode(y) == Ast("LONG_FLAG", None, << Ast("LONG_FLAG_IDENT", S(y), << >>) >>)

OptionalArgNode(o) == Ast("OPTIONAL_ARG", None, << Ast("SHELL_IDENT", S(o), << >>) >>)

RequiredArgNode(i) == Ast("REQUIRED_ARG", None, << Ast("SHELL_IDENT", S(i), << >>) >>)

TextLineNode(d) == Ast("TEXT_LINE", S(d), << >>)

ParagraphNode(lns) == Ast("PARAGRAPH", None, [i \in 1..Len(lns) |-> TextLineNode(lns[i])])

ArgBranches ==
    { ShortFlagNode("x"), LongFlagNode("xray"), LongFlagNode("second"),
      OptionalArgNode("opt"), RequiredArgNode("in"),
      TextLineNode("D"), TextLineNode("more text "),
      Ast("USAGE", S("u"), << >>) }

MaxBranches == 4

\* the Argument nodes handed to generate_argument
ArgTrees == { Ast("ARGUMENT", None, b) : b \in SeqsUpTo(ArgBranches, MaxBranches) }

\* nodes that are not a Root
NonRootNodes ==
    { Ast("NOTHING", None, << >>),
      Ast("POSION", S("Input is empty"), << >>),
      Ast("USAGE", S("prog [opt]"), << >>),
      ParagraphNode(<< "text" >>),
      Ast("SECTION", S("Options:"), << ParagraphNode(<< "text" >>) >>),
      Ast("ARGUMENT_LIST", None,
          << Ast("ARGUMENT", None, << ShortFlagNode("x"), TextLineNode("D") >>) >>),
      Ast("ARGUMENT", None, << ShortFlagNode("x"), TextLineNode("D") >>),
      Ast("BRIEF", None, << ParagraphNode(<< "text" >>) >>),
      TextLineNode("D") }

\* children of the Roots handed to generate_md
RootBranches ==
    { Ast("USAGE", S("hello-world"), << >>),
      Ast("USAGE", S("py a.py <in> [-o out]"), << >>),
      Ast("USAGE", S("prog\nprog [opt]"), << >>),
      ParagraphNode(<< "Says hello.", "Twice." >>),
      ParagraphNode(<< "Other text." >>),
      Ast("SECTION", S("Details:"), << ParagraphNode(<< "The world." >>) >>),
      Ast("SECTION", S("Options:"),
          << Ast("ARGUMENT_LIST", None,
                 << Ast("ARGUMENT", None,
                        << ShortFlagNode("x"), LongFlagNode("xray"), TextLineNode("D") >>),
                    Ast("ARGUMENT", None,
                        << LongFlagNode("second"), RequiredArgNode("in") >>) >>) >>),
      Ast("SECTION", S("Parameters:"),
          << Ast("ARGUMENT_LIST", None,
                 << Ast("ARGUMENT", None,
                        << ShortFlagNode("f"), LongFlagNode("long"), LongFlagNode("second"),
                           OptionalArgNode("opt"), TextLineNode("text") >>) >>) >>) }

MaxRootBranches == 3

RootTrees == { Ast("SYNTAX", None, b) : b \in SeqsUpTo(RootBranches, MaxRootBranches) }

\* help texts that are parsed and then rendered
RunLines ==
    { S("Usage: hello-world"), S("Usage: py a.py <in> [-o out]"), S(""),
      S("Says hello to the world."), S("Parameters:"),
      S("    -l --loud         Be very loud."),
      S("    -f --long --second [opt] text"),
      S("    -s [opt] text"),
      S("    The world needs a friend.") }

RunDocs == SeqsUpTo(RunLines, MaxLines)

\* a usage keyword line with nothing after it, the lines that continue it, and what
\* ends the block
UsageHeads == { S("Usage:"), S("usage"), S("USAGE : ") }

ContinuationLines == { S("  a"), S("    b c "), S("\td [e]"), S(""), S("  ") }

MaxContinuation == 3

UsageBlocks ==
    { [head |-> h, cont |-> c, last |-> l] :
        h \in UsageHeads,
        c \in { c \in SeqsUpTo(ContinuationLines, MaxContinuation) :
                  c # << >> /\ _is_indented_line(c[1], 1) },
        l \in { << >>, << S("T") >>, << S("Title"), S("  text") >> } }

UsageBlockLines(g) == << g.head >> \o g.cont \o g.last

\* a description-less argument line and its hanging description, every line of it
\* indented one level deeper than the flag line, and what follows the description
DescTexts == { S("x"), S("y z") }

MaxDesc == 2

AfterHanging == { "nothing", "blank", "flag", "title" }

HangingDocs ==
    { [indent |-> ind, arg |-> a, desc |-> d, after |-> f] :
        ind \in Indents, a \in BareArgs,
        d \in (SeqsUpTo(DescTexts, MaxDesc) \ { << >> }), f \in AfterHanging }

HangingDocLines(g) ==
    << ArgLine(g.indent, g.arg, S(" ")) >>
    \o [i \in 1..Len(g.desc) |-> g.indent \o g.indent \o g.desc[i]]
    \o (CASE g.after = "blank" -> << << >> >>
          [] g.after = "flag" -> << g.indent \o S("-g x") >>
          [] g.after = "title" -> << S("T") >>
          [] OTHER -> << >>)

\* a section whose first flag line has no description and is followed by a flag line
\* of the same indentation
TwoFlagDocs == { [indent |-> ind, arg |-> a] : ind \in Indents, a \in BareArgs }

TwoFlagDocLines(g) ==
    << S("Options"), ArgLine(g.indent, g.arg, S(" ")), g.indent \o S("-g x") >>

\* two blocks of unindented text lines with blank lines between them
ParaLines == { S("a"), S("b c ") }

MaxBlock == 2

BlankGaps == { << S("") >>, << S(""), S("  ") >> }

ParagraphDocs ==
    { [first |-> f, gap |-> b, second |-> n] :
        f \in (SeqsUpTo(ParaLines, MaxBlock) \ { << >> }), b \in BlankGaps,
        n \in SeqsUpTo(ParaLines, MaxBlock) }

ParagraphDocLines(g) == g.first \o g.gap \o g.second

\* first lines that begin with the letters of "usage" in some mix of cases, or do not
UsageSpellings == { S("Usage"), S("usage"), S("USAGE"), S("uSage"), S("UsAGE"), S("usagE") }

KeywordTails == { << >>, S(":"), S(": a"), S(" a b") }

NoKeywordLines == { S(""), S("Us"), S("Use it"), S("Options:"), S(" Usage: a") }

UsageKeywordLines ==
    { k \o t : k \in UsageSpellings, t \in KeywordTails } \cup NoKeywordLines

\* lines that begin with one of the command keywords, or do not
CommandKeywordLines ==
    { S(CommandKeywords[i]) \o t : i \in 1..Len(CommandKeywords), t \in KeywordTails }
    \cup NoKeywordLines \cup { S("Comma"), S("sub-"), S("Sub-commands:") }

\* texts written between the brackets of a placeholder
PlaceholderTexts ==
    { S("opt"), S("a_1"), S("_x"), S("x"), S("1a"), S("a b"), S("a-b"), S("a."),
      S("-"), S(" "), S("") }

OptionalLine(text) == S("[") \o text \o S("]")

RequiredLine(text) == S("<") \o text \o S(">")

(***************************************************************************)
(* State.                                                                  *)
(***************************************************************************)
VARIABLES
    entry,      \* the function the caller invokes
    inp,        \* the input lines
    given,      \* how the input was built (read by the properties only)
    pc,         \* "start", "loop" (parse_help_text), "arglist", "done", "raised",
                \* "parsed" (HelpText.parse returned), "generated", "gen_raised"
    line, pos,  \* cursor of parse_help_text
    output,     \* branches of the Tk.SYNTAX root under construction
    result,     \* the ParseResult returned to the caller
    section,    \* frame of parse_section while its argument list is parsed
    node,       \* branches of the Tk.ARGUMENT_LIST under construction
    aline, apos,\* cursor of parse_argument_list
    ast,        \* the node handed to the renderer
    gen_res,    \* the GeneratorResult the renderer returned
    ret         \* the value a keyword check returned (a bool or an int)

vars == << entry, inp, given, pc, line, pos, output, result, section, node, aline, apos,
          ast, gen_res, ret >>

NoResult == [ast |-> NoneAst, error |-> None, end_line |-> -1, end_col |-> -1]

NoSection == [title |-> None, body |-> -1, pos |-> -1]

NoGen == [md |-> None, error |-> None]

InitWith(e, i, g) ==
    /\ entry = e /\ inp = i /\ given = g
    /\ pc = "start" /\ line = 0 /\ pos = 0 /\ output = << >>
    /\ result = NoResult /\ section = NoSection /\ node = << >>
    /\ aline = 0 /\ apos = 0
    /\ ast = NoneAst /\ gen_res = NoGen /\ ret = None

\* the renderer is handed the node t
InitRender(e, t, g) ==
    /\ entry = e /\ inp = << >> /\ given = g
    /\ pc = "start" /\ line = 0 /\ pos = 0 /\ output = << >>
    /\ result = NoResult /\ section = NoSection /\ node = << >>
    /\ aline = 0 /\ apos = 0
    /\ ast = t /\ gen_res = NoGen /\ ret = None

Init ==
    \/ \E d \in Docs : InitWith("parse", d, [kind |-> "doc"])
    \/ \E g \in SectionDocs :
          InitWith("parse", SectionDocLines(g), [kind |-> "section"] @@ g)
    \/ \E g \in UsageDocs :
          InitWith("parse", UsageDocLines(g), [kind |-> "usage"] @@ g)
    \/ \E d \in Docs : Len(d) \in 1..2 /\ InitWith("parse_section", d, [kind |-> "doc"])
    \/ \E g \in BareArgDocs :
          InitWith("parse_argument", BareArgDocLines(g), [kind |-> "bare"] @@ g)
    \/ \E g \in CommaArgDocs :
          InitWith("parse_argument", << ArgLine(g.indent, g.arg, g.sep) >>,
                   [kind |-> "comma"] @@ g)
    \/ \E l \in LongFlagLines :
          InitWith("parse_long_flag", << l >>, [kind |-> "line"])
    \/ \E g \in ParagraphDocs, e \in { "parse_paragraph", "parse" } :
          InitWith(e, ParagraphDocLines(g), [kind |-> "paragraphs"] @@ g)
    \/ \E l \in UsageKeywordLines, e \in { "_is_usage_keyword", "parse" } :
          InitWith(e, << l >>, [kind |-> "keyword"])
    \/ \E l \in CommandKeywordLines :
          InitWith("_is_command_keyword", << l >>, [kind |-> "keyword"])
    \/ \E t \in PlaceholderTexts :
          \/ InitWith("parse_optional_arg", << OptionalLine(t) >>,
                      [kind |-> "placeholder", text |-> t])
          \/ InitWith("parse_required_arg", << RequiredLine(t) >>,
                      [kind |-> "placeholder", text |-> t])
    \/ \E g \in TwoFlagDocs :
          InitWith("parse", TwoFlagDocLines(g), [kind |-> "twoflags"] @@ g)
    \/ \E g \in HangingDocs :
          InitWith("parse_argument", HangingDocLines(g), [kind |-> "hanging"] @@ g)
    \/ \E d \in RunDocs : InitWith("parse", d, [kind |-> "run"])
    \/ \E g \in UsageBlocks :
          InitWith("parse", UsageBlockLines(g), [kind |-> "usageblock"] @@ g)
    \/ \E t \in RootTrees \cup NonRootNodes :
          InitRender("generate_md", t, [kind |-> "tree"])
    \/ \E t \in ArgTrees : InitRender("generate_argument", t, [kind |-> "argument"])

(***************************************************************************)
(* parse / parse_help_text, one action per iteration of its loop.          *)
(***************************************************************************)
Return(r) ==
    /\ result' = r
    /\ pc' = "done"

\* what parse_help_text does with the result of a production
DriverTake(r) ==
    IF is_error(r)
    THEN /\ Return(r)
         /\ UNCHANGED << line, pos, output >>
    ELSE /\ output' = Append(output, get_ast(r))
         /\ line' = SkipBlankLines(inp, r.end_line)
         /\ pos' = r.end_col
         /\ pc' = "loop"
         /\ UNCHANGED result

AtConstruct ==
    /\ entry = "parse" /\ pc = "loop"
    /\ line < Len(inp)
    /\ ~IsBlank(LineAt(inp, line))
    /\ Len(output) <= Len(inp)   \* cap: a run that ends appends at most Len(inp)

CallParse ==
    /\ entry = "parse" /\ pc = "start"
    /\ IF inp = << >>
       THEN Return(Fail("Input is empty", 0, 0))
       ELSE pc' = "loop" /\ UNCHANGED result
    /\ UNCHANGED << entry, inp, given, ret, ast, gen_res, line, pos, output, section, node, aline, apos >>

DriverSkipBlank ==
    /\ entry = "parse" /\ pc = "loop"
    /\ line < Len(inp)
    /\ IsBlank(LineAt(inp, line))
    /\ line' = line + 1
    /\ pos' = 0
    /\ UNCHANGED << entry, inp, given, ret, ast, gen_res, pc, output, result, section, node, aline, apos >>

DriverUsage ==
    /\ AtConstruct
    /\ _is_usage_keyword(LineAt(inp, line))
    /\ DriverTake(parse_usage_section(inp, line, 0))
    /\ UNCHANGED << entry, inp, given, ret, ast, gen_res, section, node, aline, apos >>

DriverCommand ==
    /\ AtConstruct
    /\ ~_is_usage_keyword(LineAt(inp, line))
    /\ _is_command_keyword(LineAt(inp, line)) # 0
    /\ IF command_section_raises(inp, line)
       THEN pc' = "raised" /\ UNCHANGED << line, pos, output, result >>
       ELSE DriverTake(parse_command_section(inp, line, 0))
    /\ UNCHANGED << entry, inp, given, ret, ast, gen_res, section, node, aline, apos >>

\* parse_section, entered from parse_help_text or called by itself
EnterSection(l, p) ==
    LET h == parse_section_head(inp, l, p)
    IN  IF h.kind = "arglist"
        THEN /\ pc' = "arglist"
             /\ section' = [title |-> h.title, body |-> h.line, pos |-> p]
             /\ node' = << >>
             /\ aline' = h.line
             /\ apos' = h.col
             /\ UNCHANGED << line, pos, output, result >>
        ELSE /\ IF entry = "parse"
                THEN DriverTake(h.r)
                ELSE Return(h.r) /\ UNCHANGED << line, pos, output >>
             /\ UNCHANGED << section, node, aline, apos >>

DriverSection ==
    /\ AtConstruct
    /\ ~_is_usage_keyword(LineAt(inp, line))
    /\ _is_command_keyword(LineAt(inp, line)) = 0
    /\ is_section(inp, line)
    /\ EnterSection(line, 0)
    /\ UNCHANGED << entry, inp, given, ret, ast, gen_res >>

DriverParagraph ==
    /\ AtConstruct
    /\ ~_is_usage_keyword(LineAt(inp, line))
    /\ _is_command_keyword(LineAt(inp, line)) = 0
    /\ ~is_section(inp, line)
    /\ DriverTake(parse_paragraph(inp, line, 0, 0))
    /\ UNCHANGED << entry, inp, given, ret, ast, gen_res, section, node, aline, apos >>

DriverReturn ==
    /\ entry = "parse" /\ pc = "loop"
    /\ ~(line < Len(inp))
    /\ Return(Ok(Ast("SYNTAX", None, output), line, pos))
    /\ UNCHANGED << entry, inp, given, ret, ast, gen_res, line, pos, output, section, node, aline, apos >>

(***************************************************************************)
(* parse_argument_list, one action per iteration of its loop.              *)
(***************************************************************************)
ArgListContinues == _in_range(aline, inp) /\ _line_startswith(LineAt(inp, aline), S("-"), 0)

\* parse_section returns sr to its caller
SectionReturn(sr) ==
    /\ IF entry = "parse"
       THEN DriverTake(sr)
       ELSE Return(sr) /\ UNCHANGED << line, pos, output >>
    /\ section' = NoSection
    /\ node' = << >>

ArgListStep ==
    /\ pc = "arglist"
    /\ ArgListContinues
    /\ Len(node) <= Len(inp)     \* cap: a run that ends appends at most Len(inp)
    /\ LET arg_result == parse_argument(inp, aline, apos)
       IN  IF is_error(arg_result)
           THEN /\ SectionReturn(parse_section_tail(section.title, section.body,
                                                    section.pos, arg_result))
                /\ UNCHANGED << aline, apos >>
           ELSE /\ node' = Append(node, get_ast(arg_result))
                /\ aline' = SkipBlankLines(inp, arg_result.end_line)
                /\ apos' = 0
                /\ UNCHANGED << pc, line, pos, output, result, section >>
    /\ UNCHANGED << entry, inp, given, ret, ast, gen_res >>

ArgListExit ==
    /\ pc = "arglist"
    /\ ~ArgListContinues
    /\ SectionReturn(parse_section_tail(section.title, section.body, section.pos,
                                        parse_argument_list_end(node, aline, apos)))
    /\ UNCHANGED << entry, inp, given, ret, ast, gen_res, aline, apos >>

(***************************************************************************)
(* The parse functions called by themselves, as the unit tests call them   *)
(* (helptext_tests.py, _test_parser_function): funct(lines, 0, 0).         *)
(***************************************************************************)
CallSection ==
    /\ entry = "parse_section" /\ pc = "start"
    /\ EnterSection(0, 0)
    /\ UNCHANGED << entry, inp, given, ret, ast, gen_res >>

CallArgument ==
    /\ entry = "parse_argument" /\ pc = "start"
    /\ Return(parse_argument(inp, 0, 0))
    /\ UNCHANGED << entry, inp, given, ret, ast, gen_res, line, pos, output, section, node, aline, apos >>

\* parse_paragraph(lines, 0, 0) with the default indent_level 0
CallParagraph ==
    /\ entry = "parse_paragraph" /\ pc = "start"
    /\ Return(parse_paragraph(inp, 0, 0, 0))
    /\ UNCHANGED << entry, inp, given, ret, ast, gen_res, line, pos, output, section, node, aline, apos >>

\* the keyword check returned value
Returns(value) ==
    /\ ret' = value
    /\ pc' = "done"
    /\ UNCHANGED << entry, inp, given, ast, gen_res, line, pos, output, result, section, node,
                    aline, apos >>

CallIsUsageKeyword ==
    /\ entry = "_is_usage_keyword" /\ pc = "start"
    /\ Returns(_is_usage_keyword(inp[1]))

CallIsCommandKeyword ==
    /\ entry = "_is_command_keyword" /\ pc = "start"
    /\ Returns(_is_command_keyword(inp[1]))

CallOptionalArg ==
    /\ entry = "parse_optional_arg" /\ pc = "start"
    /\ Return(parse_optional_arg(inp, 0, 0))
    /\ UNCHANGED << entry, inp, given, ret, ast, gen_res, line, pos, output, section, node, aline, apos >>

CallRequiredArg ==
    /\ entry = "parse_required_arg" /\ pc = "start"
    /\ Return(parse_required_arg(inp, 0, 0))
    /\ UNCHANGED << entry, inp, given, ret, ast, gen_res, line, pos, output, section, node, aline, apos >>

CallLongFlag ==
    /\ entry = "parse_long_flag" /\ pc = "start"
    /\ Return(parse_long_flag(inp, 0, 0))
    /\ UNCHANGED << entry, inp, given, ret, ast, gen_res, line, pos, output, section, node, aline, apos >>

(***************************************************************************)
(* HelpText.parse and HelpText.gen (helptext.py), and the renderer called  *)
(* by itself.                                                              *)
(***************************************************************************)
\* the call of the renderer ends with the GeneratorResult r or with an exception
Generated(r) ==
    IF IsRaised(r)
    THEN pc' = "gen_raised" /\ UNCHANGED gen_res
    ELSE pc' = "generated" /\ gen_res' = r

\* generate_md(tree) returns a GeneratorResult or raises
Generate(tree) == Generated(generate_md(tree))

\* HelpText.parse, once parse(text) has returned
HelpTextParse ==
    /\ entry = "parse" /\ pc = "done"
    /\ ast' = HelpText_parse(result)
    /\ pc' = "parsed"
    /\ UNCHANGED << entry, inp, given, ret, line, pos, output, result, section, node, aline, apos,
                    gen_res >>

\* HelpText.gen on the node HelpText.parse returned
HelpTextGen ==
    /\ entry = "parse" /\ pc = "parsed"
    /\ Generate(ast)
    /\ UNCHANGED << entry, inp, given, ret, line, pos, output, result, section, node, aline, apos,
                    ast >>

CallGenerateMd ==
    /\ entry = "generate_md" /\ pc = "start"
    /\ Generate(ast)
    /\ UNCHANGED << entry, inp, given, ret, line, pos, output, result, section, node, aline, apos,
                    ast >>

CallGenerateArgument ==
    /\ entry = "generate_argument" /\ pc = "start"
    /\ Generated(generate_argument(ast))
    /\ UNCHANGED << entry, inp, given, ret, line, pos, output, result, section, node, aline, apos,
                    ast >>

Next ==
    \/ CallParse
    \/ CallSection
    \/ CallArgument
    \/ CallLongFlag
    \/ CallParagraph
    \/ CallOptionalArg
    \/ CallRequiredArg
    \/ CallIsUsageKeyword
    \/ CallIsCommandKeyword
    \/ DriverSkipBlank
    \/ DriverUsage
    \/ DriverCommand
    \/ DriverSection
    \/ DriverParagraph
    \/ DriverReturn
    \/ ArgListStep
    \/ ArgListExit
    \/ HelpTextParse
    \/ HelpTextGen
    \/ CallGenerateMd
    \/ CallGenerateArgument

Spec == Init /\ [][Next]_vars

(***************************************************************************)
(* Properties.                                                             *)
(***************************************************************************)
Returned == pc = "done"

\* parse returned a ParseResult that is not an error
ParseSucceeded == entry = "parse" /\ Returned /\ ~is_error(result)

\* a loop of the source has run more often than a run that ends can (the state
\* in which the caps of AtConstruct and ArgListStep stop the model)
Diverged ==
    \/ /\ entry = "parse" /\ pc = "loop"
       /\ line < Len(inp) /\ ~IsBlank(LineAt(inp, line))
       /\ Len(output) > Len(inp)
    \/ /\ pc = "arglist" /\ ArgListContinues
       /\ Len(node) > Len(inp)

\* a str (the message of a failed sub-parse) occurs somewhere in the tree
RECURSIVE HasStr(_)
HasStr(n) == n.tk = "str" \/ \E i \in 1..Len(n.branches) : HasStr(n.branches[i])

RootKinds == { "USAGE", "SECTION", "COMMAND_SECTION", "PARAGRAPH" }

\* C1: parse is all-or-nothing. The outcome of a failed sub-parse (the failure
\* message) is never appended to the Root or to a node below it, and the result
\* parse returns after a failure has is_error() true and carries no tree.
C1_AllOrNothing ==
    entry = "parse" =>
        /\ \A i \in 1..Len(output) : ~HasStr(output[i])
        /\ \A i \in 1..Len(node) : ~HasStr(node[i])
        /\ Returned => (is_error(result) \/ ~HasStr(result.ast))

\* C2: every iteration of the driver loop that runs a production (and appends its
\* outcome to the Root) resumes at a line index strictly greater than the one the
\* production was started at, so the driver ends at the end of the input.
C2_DriverAdvances ==
    [][(entry = "parse" /\ Len(output') > Len(output)) => line' > line]_vars

\* C3: a tree that parse returns as a success has kind Root (Tk.SYNTAX) and each of
\* its children is a node of kind Usage, Section, CommandSection or Paragraph.
C3_RootChildren ==
    ParseSucceeded =>
        /\ result.ast.tk = "SYNTAX"
        /\ \A i \in 1..Len(result.ast.branches) : result.ast.branches[i].tk \in RootKinds

\* the lines of the input that can be a section title: unindented, not blank, and
\* followed by an indented line
TitleLines ==
    { i \in 1..Len(inp) :
        /\ ~IsBlank(inp[i])
        /\ ~_is_indented_line(inp[i], 1)
        /\ i < Len(inp) /\ _is_indented_line(inp[i + 1], 1) }

SectionShape(s) ==
    /\ \E i \in TitleLines : s.value = Strip(inp[i])
    /\ Len(s.branches) = 1
    /\ \/ s.branches[1].tk = "PARAGRAPH"
       \/ /\ s.branches[1].tk = "ARGUMENT_LIST"
          /\ Len(s.branches[1].branches) >= 1
          /\ \A j \in 1..Len(s.branches[1].branches) :
                s.branches[1].branches[j].tk = "ARGUMENT"

\* C4: every Section node of a tree returned by parse has the trimmed title line as
\* its title and exactly one child, an ArgumentList with at least one Argument or a
\* Paragraph.
C4_SectionShape ==
    (ParseSucceeded /\ result.ast.tk = "SYNTAX") =>
        \A i \in 1..Len(result.ast.branches) :
            result.ast.branches[i].tk = "SECTION" => SectionShape(result.ast.branches[i])

\* a returned tree holds a Section with an argument list of two Arguments whose
\* title line ended in whitespace
C4_Witness ==
    /\ ParseSucceeded /\ result.ast.tk = "SYNTAX"
    /\ \E i \in 1..Len(result.ast.branches) :
          /\ result.ast.branches[i].tk = "SECTION"
          /\ result.ast.branches[i].branches[1].tk = "ARGUMENT_LIST"
          /\ Len(result.ast.branches[i].branches[1].branches) = 2
          /\ \E k \in TitleLines : inp[k] = result.ast.branches[i].value \o << " " >>

\* C5: for an input of one usage line (keyword, optional colon, text) followed by a
\* blank line, parse returns a Root with exactly one child, a Usage node whose text
\* is the trimmed remainder of the line after the keyword and the colon.
C5_UsageLine ==
    given.kind = "usage" =>
        /\ ~Diverged /\ pc # "raised"
        /\ Returned =>
              /\ ~is_error(result)
              /\ result.ast = Ast("SYNTAX", None, << Ast("USAGE", given.text, << >>) >>)

C5_Witness ==
    /\ given.kind = "usage" /\ Returned
    /\ given.colon = S(":") /\ given.ws1 = S(" ") /\ given.trail = S(" ")
    /\ given.text = S("p [o] <i>")
    /\ Len(result.ast.branches) = 1

\* C6: a title line followed by indented lines that begin with '-' and carry an
\* inline description parses to Section(title) with one ArgumentList child that
\* holds exactly one Argument per flag line, in source order, each with its short
\* flag, long flags, optional placeholder and one TextLine, in that order.
C6_SectionArguments ==
    given.kind = "section" =>
        /\ Len(node) <= Len(given.args)
        /\ Returned =>
              /\ ~is_error(result)
              /\ result.ast =
                   Ast("SYNTAX", None,
                       << Ast("SECTION", Strip(given.title),
                              << Ast("ARGUMENT_LIST", None,
                                     [i \in 1..Len(given.args) |-> ArgNode(given.args[i])])
                              >>) >>)

\* C7: an argument line of flags and an optional placeholder only, with no
\* following deeper-indented line, parses to an Argument without TextLine children.
C7_BareArgument ==
    (given.kind = "bare" /\ Returned) =>
        /\ ~is_error(result)
        /\ result.ast = ArgNode(given.arg)

\* C8: a comma (with optional surrounding whitespace) after a short or a long flag
\* is a separator: the line yields the Argument of its parts, the same as the line
\* written with blanks in place of the commas.
C8_CommaTolerated ==
    (given.kind = "comma" /\ Returned) =>
        /\ ~is_error(result)
        /\ result.ast = ArgNode(given.arg)
        /\ result.ast =
             parse_argument(<< ArgLine(given.indent, given.arg, S(" ")) >>, 0, 0).ast

C8_Witness ==
    /\ given.kind = "comma" /\ Returned
    /\ inp = << S("-f, --long, --second, [opt] text") >>
    /\ Len(result.ast.branches) = 5

\* the lines of LongFlagLines whose long flag identifier has fewer than two characters
ShortIdentLines == { S("--a"), S("--a x"), S("--a,"), S("--_"), S("--"), S(" --Z") }

\* C9: parsing a long flag whose identifier has fewer than two characters yields a
\* failure result (is_error() true, no node) positioned at the identifier.
C9_ShortLongFlagFails ==
    (entry = "parse_long_flag" /\ Returned /\ inp[1] \in ShortIdentLines) =>
        /\ is_error(result)
        /\ get_ast(result) = NoneAst
        /\ result.end_line = 0
        /\ result.end_col \in (_skip_whitespace(inp[1], 0) + 2)..Len(inp[1])

\* C10: a section title line that is immediately followed by an unindented line, or
\* by the end of input, makes parse_section fail with the 'section with no body'
\* error.
C10_MissingSectionBody ==
    (/\ entry = "parse_section" /\ Returned
     /\ ~IsBlank(inp[1]) /\ ~_is_indented_line(inp[1], 1)
     /\ (Len(inp) = 1 \/ ~_is_indented_line(inp[2], 1))) =>
        /\ is_error(result)
        /\ get_ast(result) = NoneAst

(***************************************************************************)
(* Properties of the renderer, of HelpText.parse and of the command and    *)
(* usage sections.                                                         *)
(***************************************************************************)
\* the renderer was called and its call has ended
Rendered == pc \in { "generated", "gen_raised" }

\* the branches of an Argument in the order the data model allows: a short flag,
\* long flags, one placeholder, text lines
AllowedOrder(branches) ==
    \E s \in 0..1, l \in 0..Len(branches), p \in 0..1 :
        /\ s + l + p <= Len(branches)
        /\ \A i \in 1..Len(branches) :
              IF i <= s THEN branches[i].tk = "SHORT_FLAG"
              ELSE IF i <= s + l THEN branches[i].tk = "LONG_FLAG"
              ELSE IF i <= s + l + p THEN IsPositional(branches[i])
              ELSE branches[i].tk = "TEXT_LINE"

WellFormedArgument(arg) ==
    /\ arg.tk = "ARGUMENT"
    /\ arg.branches # << >>
    /\ arg.branches[1].tk \in { "SHORT_FLAG", "LONG_FLAG" }
    /\ AllowedOrder(arg.branches)

WellFormedSection(s) ==
    /\ Len(s.branches) = 1
    /\ \/ s.branches[1].tk = "PARAGRAPH"
       \/ /\ s.branches[1].tk = "ARGUMENT_LIST"
          /\ s.branches[1].branches # << >>
          /\ \A j \in 1..Len(s.branches[1].branches) :
                WellFormedArgument(s.branches[1].branches[j])

\* a tree with a Root that satisfies the invariants of the data model
WellFormedRoot(t) ==
    /\ t.tk = "SYNTAX"
    /\ \A i \in 1..Len(t.branches) :
          /\ t.branches[i].tk \in RootKinds
          /\ t.branches[i].tk = "SECTION" => WellFormedSection(t.branches[i])

\* C11: generate_md returns Markdown (no error result, no exception) for every tree
\* with a Root that satisfies the data-model invariants, Arguments with a short flag
\* and two or more long flags included.
C11_RenderTotal ==
    (Rendered /\ entry \in { "generate_md", "parse" } /\ WellFormedRoot(ast)) =>
        /\ pc = "generated"
        /\ ~gen_is_error(gen_res)

\* C12: generate_md applied to a node whose kind is not Root returns an error result
\* (is_error() true) with empty Markdown.
C12_NotRootIsError ==
    (/\ Rendered /\ entry \in { "generate_md", "parse" }
     /\ ast.tk \notin { "SYNTAX", "str", "None" }) =>
        /\ pc = "generated"
        /\ gen_is_error(gen_res)
        /\ get_md(gen_res) = << >>

C12_Witness ==
    /\ entry = "generate_md" /\ pc = "generated"
    /\ ast.tk = "SECTION"
    /\ gen_res.error = << "Expected root syntax node" >>

\* the least index at or after begin where token occurs in s, or -1
FindFrom(s, token, begin) ==
    LET hits == { i \in begin..Len(s) : StartsWith(s, token, i) }
    IN  IF hits = { } THEN -1 ELSE CHOOSE i \in hits : \A j \in hits : i <= j

\* the tokens occur in s one after the other, from begin on
RECURSIVE InOrder(_, _, _)
InOrder(s, tokens, begin) ==
    IF tokens = << >> THEN TRUE
    ELSE LET at == FindFrom(s, tokens[1], begin)
         IN  at # -1 /\ InOrder(s, Tail(tokens), at + Len(tokens[1]))

\* an Argument with a ShortFlag, one LongFlag and description lines only
ShortLongText(arg) ==
    /\ arg.tk = "ARGUMENT" /\ Len(arg.branches) >= 2
    /\ arg.branches[1].tk = "SHORT_FLAG"
    /\ arg.branches[2].tk = "LONG_FLAG"
    /\ \A i \in 3..Len(arg.branches) : arg.branches[i].tk = "TEXT_LINE"

\* C13: for an Argument with a ShortFlag x, one LongFlag y and description lines
\* D1..Dn the rendered text holds the token for -x, then the token for --y, then
\* D1..Dn, in that order.
C13_FlagOrder ==
    (entry = "generate_argument" /\ Rendered /\ ShortLongText(ast)) =>
        /\ pc = "generated" /\ ~gen_is_error(gen_res)
        /\ InOrder(get_md(gen_res),
                   << << BT >> \o S("-") \o ast.branches[1].branches[1].value \o << BT >>,
                      << BT >> \o S("--") \o ast.branches[2].branches[1].value \o << BT >> >>
                   \o [i \in 1..(Len(ast.branches) - 2) |-> Strip(ast.branches[i + 2].value)],
                   0)

C13_Witness ==
    /\ entry = "generate_argument" /\ pc = "generated"
    /\ ShortLongText(ast) /\ Len(ast.branches) = 4
    /\ ast.branches[3].value # ast.branches[4].value

\* C14: whenever an Argument has a branch whose kind is not allowed at its position,
\* wherever in the list it occurs, generate_argument returns an error, no Markdown.
C14_NoSilentDrop ==
    (/\ entry = "generate_argument" /\ Rendered
     /\ ast.tk = "ARGUMENT" /\ ~AllowedOrder(ast.branches)) =>
        /\ pc = "generated"
        /\ gen_is_error(gen_res)

\* the number of lines of the Markdown text md that begin with prefix
CountLines(md, prefix) ==
    LET lns == SplitLines(md)
    IN  Cardinality({ i \in 1..Len(lns) : StartsWith(lns[i], prefix, 0) })

\* C15: the document title is derived from the first Usage node only: the Markdown
\* rendered for a Root with several Usage children holds exactly one title heading.
C15_OneTitle ==
    (/\ pc = "generated" /\ entry \in { "generate_md", "parse" }
     /\ ~gen_is_error(gen_res) /\ WellFormedRoot(ast)
     /\ \E i \in 1..Len(ast.branches) : ast.branches[i].tk = "USAGE") =>
        CountLines(get_md(gen_res), S("# ")) = 1

\* C16: the Markdown rendered for a Root holds at most one 'Brief' heading: only the
\* first root-level Paragraph before any Section is emitted as a brief.
C16_OneBrief ==
    (/\ pc = "generated" /\ entry \in { "generate_md", "parse" }
     /\ ~gen_is_error(gen_res) /\ WellFormedRoot(ast)) =>
        CountLines(get_md(gen_res), S("### Brief")) <= 1

\* a usage text that is just a program name: no whitespace, flag or placeholder
IsProgramName(text) ==
    /\ text # << >>
    /\ text[1] # "-"
    /\ \A i \in 1..Len(text) : text[i] \notin StripSet \cup { "[", "<" }

\* C17: when the usage text is just a program name, the title heading is that whole
\* name, also when the name holds a hyphen.
C17_TitleIsName ==
    (/\ pc = "generated" /\ entry \in { "generate_md", "parse" }
     /\ ~gen_is_error(gen_res) /\ WellFormedRoot(ast)
     /\ ast.branches # << >> /\ ast.branches[1].tk = "USAGE"
     /\ IsProgramName(ast.branches[1].value)) =>
        SplitLines(get_md(gen_res))[1] = S("# ") \o ast.branches[1].value

\* C18: HelpText.parse returns a Poison node that holds the error message when
\* parsing fails (for the empty text, say) and the Root otherwise, never any other
\* kind of value.
C18_PoisonOrRoot ==
    (entry = "parse" /\ pc = "parsed") =>
        /\ ast.tk \in { "POSION", "SYNTAX" }
        /\ inp = << >> => (ast.tk = "POSION" /\ ast.value = S("Input is empty"))

\* C19: a command keyword line followed by an indented block parses to a
\* CommandSection with Command children.
C19_CommandSection ==
    (/\ entry = "parse" /\ inp # << >>
     /\ _is_command_keyword(inp[1]) # 0 /\ ~_is_usage_keyword(inp[1])
     /\ Len(inp) >= 2 /\ _is_indented_line(inp[2], 1)) =>
        /\ pc # "raised"
        /\ Returned =>
              /\ ~is_error(result)
              /\ result.ast.tk = "SYNTAX" /\ result.ast.branches # << >>
              /\ result.ast.branches[1].tk = "COMMAND_SECTION"
              /\ result.ast.branches[1].branches # << >>
              /\ \A i \in 1..Len(result.ast.branches[1].branches) :
                    result.ast.branches[1].branches[i].tk = "COMMAND"

\* the lines without the blank lines at their end
RECURSIVE DropBlankTail(_)
DropBlankTail(lns) ==
    IF lns # << >> /\ IsBlank(lns[Len(lns)])
    THEN DropBlankTail(SubSeq(lns, 1, Len(lns) - 1))
    ELSE lns

\* C20: when nothing follows the usage keyword and colon on its line, the Usage
\* text is the first indented line and every further indented or blank line up to
\* an unindented non-blank line or the end of input, each trimmed, joined with
\* newlines, without the blank lines and whitespace at the end.
C20_UsageBlock ==
    (given.kind = "usageblock") =>
        /\ pc # "raised" /\ ~Diverged
        /\ output # << >> =>
              output[1] = Ast("USAGE",
                              JoinLines(DropBlankTail([i \in 1..Len(given.cont) |->
                                                          Strip(given.cont[i])])),
                              << >>)
        /\ Returned => (~is_error(result) /\ result.ast.branches # << >>)

C20_Witness ==
    /\ given.kind = "usageblock" /\ Returned
    /\ given.cont = << S("    b c "), S(""), S("\td [e]") >>
    /\ given.last = << S("T") >>
    /\ result.ast.branches[1].value = S("b c\n\nd [e]")

(***************************************************************************)
(* Properties of hanging descriptions, paragraphs, the section lookahead,  *)
(* the keyword checks and the placeholders.                                *)
(***************************************************************************)
\* the TextLine nodes of the description lines
DescNodes(desc) == [i \in 1..Len(desc) |-> Ast("TEXT_LINE", desc[i], << >>)]

\* C21: when a description-less argument line is followed by description lines that
\* are all indented one level deeper than it (by 4 blanks, 2 blanks or a tab per
\* level), every one of them becomes a TextLine of the Argument, in order, and the
\* argument parse ends on the first line after the description.
C21_HangingDescription ==
    (given.kind = "hanging" /\ Returned) =>
        /\ ~is_error(result)
        /\ result.ast = Ast("ARGUMENT", None,
                            ArgNode(given.arg).branches \o DescNodes(given.desc))
        /\ result.end_line = 1 + Len(given.desc)

NoTextLine(arg) == \A i \in 1..Len(arg.branches) : arg.branches[i].tk # "TEXT_LINE"

\* C22: a line that follows a description-less argument line and is not indented
\* deeper than it is not taken as description: the Argument has no TextLine and
\* ends after its flag line, and a flag line of the same indentation starts a new
\* Argument of the list.
C22_SameIndentNotAbsorbed ==
    /\ (given.kind = "bare" /\ Returned) =>
          (NoTextLine(result.ast) /\ result.end_line = 1)
    /\ (given.kind = "twoflags" /\ node # << >>) => node[1] = ArgNode(given.arg)
    /\ (given.kind = "twoflags" /\ Returned) =>
          result.ast =
             Ast("SYNTAX", None,
                 << Ast("SECTION", S("Options"),
                        << Ast("ARGUMENT_LIST", None,
                               << ArgNode(given.arg),
                                  Ast("ARGUMENT", None,
                                      << ShortFlagNode("g"), TextLineNode("x") >>) >>) >>) >>)

\* the number of lines of the input before line index upto (0-based) that begin,
\* after whitespace, with '-'
FlagLinesBefore(upto) ==
    Cardinality({ i \in 1..Len(inp) : i <= upto /\ _line_startswith(inp[i], S("-"), 0) })

\* C23: an argument line whose description is introduced by ':' is consumed: the
\* argument list goes on with the following line, its parse ends, and the list
\* holds exactly one Argument for the line, with the text after the colon as its
\* TextLine.
C23_ColonConsumesLine ==
    (given.kind = "section" /\ \E i \in 1..Len(given.args) : given.args[i].colon) =>
        /\ ~Diverged
        /\ pc = "arglist" => Len(node) <= FlagLinesBefore(aline)
        /\ Returned =>
              /\ result.ast.tk = "SYNTAX" /\ Len(result.ast.branches) = 1
              /\ result.ast.branches[1].tk = "SECTION"
              /\ result.ast.branches[1].branches[1].tk = "ARGUMENT_LIST"
              /\ Len(result.ast.branches[1].branches[1].branches) = Len(given.args)
              /\ \A i \in 1..Len(given.args) :
                    given.args[i].colon =>
                       LET arg == result.ast.branches[1].branches[1].branches[i]
                       IN  arg.branches[Len(arg.branches)]
                              = Ast("TEXT_LINE", given.args[i].desc, << >>)

\* the Paragraph of a block of text lines
BlockParagraph(block) ==
    Ast("PARAGRAPH", None, [i \in 1..Len(block) |-> Ast("TEXT_LINE", Strip(block[i]), << >>)])

NoEmptyTextLine(para) == \A i \in 1..Len(para.branches) : para.branches[i].value # << >>

\* C24: parse_paragraph at indentation level 0 stops at the first blank line: of two
\* blocks of unindented text separated by blank lines it returns the Paragraph of
\* the first block only, without an empty TextLine, and the driver returns one
\* Paragraph per block.
C24_ParagraphStopsAtBlank ==
    (given.kind = "paragraphs" /\ Returned) =>
        IF entry = "parse_paragraph"
        THEN /\ NoEmptyTextLine(result.ast)
             /\ result.ast = BlockParagraph(given.first)
        ELSE result.ast =
                Ast("SYNTAX", None,
                    << BlockParagraph(given.first) >>
                    \o (IF given.second = << >> THEN << >>
                        ELSE << BlockParagraph(given.second) >>))

\* the driver is at a non-blank unindented line that begins with neither a usage
\* nor a command keyword
AtPlainLine ==
    /\ entry = "parse" /\ pc = "loop" /\ line < Len(inp)
    /\ _is_indented_line(LineAt(inp, line), 0)
    /\ ~_is_usage_keyword(LineAt(inp, line))
    /\ _is_command_keyword(LineAt(inp, line)) = 0

\* the line after line l is indented and not blank
NextIndented(l) == l + 1 < Len(inp) /\ _is_indented_line(LineAt(inp, l + 1), 1)

\* the lines after line l that are unindented and followed by an indented line
TitlesAfter(l) == { k \in (l + 1)..(Len(inp) - 1) : (k + 1) \in TitleLines }

\* the text lines of the lines from..(to - 1), without the empty ones at the end
TextOf(from, to) ==
    PopEmptyTail([i \in 1..(to - from) |-> Ast("TEXT_LINE", Strip(inp[from + i]), << >>)])

Uppers == S("ABCDEFGHIJKLMNOPQRSTUVWXYZ")

Lowers == S("abcdefghijklmnopqrstuvwxyz")

\* str.lower() of the text s
Lower(s) ==
    [i \in 1..Len(s) |->
        IF \E k \in 1..26 : Uppers[k] = s[i]
        THEN Lowers[CHOOSE k \in 1..26 : Uppers[k] = s[i]]
        ELSE s[i]]

BeginsWithUsage(s) == StartsWith(Lower(s), S("usage"), 0)

\* C26: the usage-keyword check is a case-insensitive prefix match: it is true
\* exactly for the lines that begin with the letters of 'usage' in any mix of upper
\* and lower case, and the driver hands every such line to the usage parser.
C26_UsageKeyword ==
    /\ (entry = "_is_usage_keyword" /\ pc = "done") => ret = BeginsWithUsage(inp[1])
    /\ (/\ entry = "parse" /\ given.kind = "keyword"
        /\ BeginsWithUsage(inp[1]) /\ output # << >>) =>
          output[1] = parse_usage_section(inp, 0, 0).ast

\* the length of the longest command keyword the line s begins with, 0 without one
LongestKeyword(s) ==
    LET hits == { i \in 1..Len(CommandKeywords) : StartsWith(s, S(CommandKeywords[i]), 0) }
    IN  IF hits = { } THEN 0
        ELSE Len(CommandKeywords[CHOOSE i \in hits :
                    \A j \in hits : Len(CommandKeywords[j]) <= Len(CommandKeywords[i])])

\* C27: the command-keyword check returns 0 for a line that begins with none of the
\* keywords and otherwise the length of the keyword the line begins with: for a
\* line that begins with a plural keyword the length of the plural, not of its
\* singular prefix.
C27_CommandKeyword ==
    (entry = "_is_command_keyword" /\ pc = "done") => ret = LongestKeyword(inp[1])

\* a non-empty text of alphanumeric and underscore characters
IsIdentifier(text) == text # << >> /\ \A i \in 1..Len(text) : _is_alnumus(text[i])

\* the parser returned a placeholder node
Accepted(r) == ~is_error(r) /\ r.ast.tk \in { "OPTIONAL_ARG", "REQUIRED_ARG" }

\* C28: parse_optional_arg and parse_required_arg accept a bracketed text only when
\* it is a non-empty identifier of alphanumeric/underscore characters, and both
\* accept the same texts.
C28_PlaceholderIdentifier ==
    (given.kind = "placeholder" /\ Returned) =>
        /\ Accepted(result) => IsIdentifier(given.text)
        /\ Accepted(parse_optional_arg(<< OptionalLine(given.text) >>, 0, 0))
              = Accepted(parse_required_arg(<< RequiredLine(given.text) >>, 0, 0))

\* at least one child, every child a TextLine, the first and the last not empty
ParagraphShape(p) ==
    /\ p.branches # << >>
    /\ \A i \in 1..Len(p.branches) : p.branches[i].tk = "TEXT_LINE"
    /\ p.branches[1].value # << >>
    /\ p.branches[Len(p.branches)].value # << >>

\* the Paragraphs among the nodes and among the children of the Sections among them
ParagraphsShaped(nodes) ==
    \A i \in 1..Len(nodes) :
        /\ nodes[i].tk = "PARAGRAPH" => ParagraphShape(nodes[i])
        /\ nodes[i].tk = "SECTION" =>
              \A j \in 1..Len(nodes[i].branches) :
                  nodes[i].branches[j].tk = "PARAGRAPH" =>
                      ParagraphShape(nodes[i].branches[j])

\* C29: every Paragraph of a tree returned by parse, at root level or inside a
\* Section, has at least one TextLine, and its first and its last TextLine are not
\* empty.
C29_ParagraphEnds ==
    (entry = "parse" /\ Returned /\ result.ast.tk = "SYNTAX") =>
        ParagraphsShaped(result.ast.branches)

\* parse returned the Paragraph of a block of text that two blank lines follow
C29_Witness ==
    /\ entry = "parse" /\ Returned /\ given.kind = "paragraphs"
    /\ given.second = << >> /\ Len(given.gap) = 2 /\ Len(given.first) = 2
    /\ result.ast.tk = "SYNTAX" /\ Len(result.ast.branches) = 1
    /\ result.ast.branches[1].tk = "PARAGRAPH"
    /\ Len(result.ast.branches[1].branches) = 2

\* the number of backticks of the text
Backticks(text) == Cardinality({ i \in 1..Len(text) : text[i] = BT })

\* every line of the Markdown text closes the code spans it opens
BalancedSpans(md) ==
    \A i \in 1..Len(SplitLines(md)) : Backticks(SplitLines(md)[i]) % 2 = 0

\* C30: the flag and placeholder part of a rendered argument line has balanced code
\* spans: every backtick that opens a flag or placeholder token is closed before the
\* description (which starts on the next line of the Markdown) begins, also for an
\* Argument with a short flag and a placeholder but no long flag.
C30_BalancedCodeSpans ==
    (/\ pc = "generated" /\ ~gen_is_error(gen_res)
     /\ \/ entry = "generate_argument" /\ WellFormedArgument(ast)
        \/ entry = "parse") =>
        BalancedSpans(get_md(gen_res))

====
